---- MODULE Spec2Model ----
(***************************************************************************)
(* A model of the mini-jotai store (src/src/mini-jotai/store.ts) and of    *)
(* the atom factory (src/src/mini-jotai/hooks.ts, function atom).          *)
(*                                                                         *)
(* The store is single-threaded and synchronous: every public operation    *)
(* (get, set, sub, the unsubscribe callback) is one atomic action.  The    *)
(* mutually recursive helpers of createStore are recursive operators that  *)
(* thread the store (atomStateMap, mountedMap, pendingMap) through the     *)
(* calls, together with the trace of what the call did (read functions     *)
(* run, listeners invoked) and the exception flag.                         *)
(*                                                                         *)
(* Representation.  An optional object (AtomState | undefined, Mounted |   *)
(* undefined) is a sequence of length 0 or 1.  A JavaScript Map or Set is  *)
(* a sequence without duplicates in insertion order.  An AtomState is      *)
(* [d, v]; the dependency map d records, for each key, the value of the    *)
(* state object stored for it (or Undefined).                              *)
(***************************************************************************)
EXTENDS Integers, Sequences, FiniteSets, TLC

\* ------------------------------------------------------------------------
\* Bounds of the model
\* ------------------------------------------------------------------------
\* number of public calls (get, set, sub, unsubscribe) in a run
MaxOps == 5

\* ------------------------------------------------------------------------
\* The application's atoms
\* ------------------------------------------------------------------------
\* count  = atom(0)
\* flag   = atom(0)
\* double = atom(get => get(count) * 2)
\* sum    = atom(get => get(count) + get(double))
\* sel    = atom(get => get(flag) > 0 ? 5 : get(count))
\* noinit = atom(get => get(noinit), (get, set, v) => set(noinit, v))
\* risky  = atom(get => get(count) + get(noinit),
\*               (get, set, v) => { set(count, v); get(noinit) })
\* bounce = atom(get => get(count),
\*               (get, set, v) => { const old = get(count);
\*                                  set(count, v); set(count, old) })
\* both   = atom(get => get(count) + get(flag),
\*               (get, set, v) => { set(count, v); set(flag, v) })
Atoms == {"count", "flag", "double", "sum", "sel", "noinit", "risky", "bounce",
          "both"}
PrimitiveAtoms == {"count", "flag"}
WritableAtoms == {"count", "flag", "noinit", "risky", "bounce", "both"}
Listeners == {"L1", "L2"}

\* nextDependencies.set(a, undefined): the recorded state of an unresolved key
Undefined == -1

\* a faulty hasInitialValue: every atom is taken to declare an initial value
hasInitialValue_always(atom) == TRUE

\* "init" in atom
hasInitialValue(atom) == atom \in PrimitiveAtoms

\* config.init = read
InitOf(atom) == 0

\* Object.is on the two states' values
isEqualAtomValue(a, b) == a.v = b.v

returnAtomValue(atomState) == atomState.v

\* ------------------------------------------------------------------------
\* Helpers for Map and Set in insertion order
\* ------------------------------------------------------------------------
Keys(m) == {m[i][1] : i \in DOMAIN m}

Range(s) == {s[i] : i \in DOMAIN s}

\* Map.prototype.set: an existing key keeps its place
MapSet(m, k, x) ==
    IF k \in Keys(m)
    THEN [i \in DOMAIN m |-> IF m[i][1] = k THEN <<k, x>> ELSE m[i]]
    ELSE Append(m, <<k, x>>)

\* Set.prototype.add
SetAdd(s, x) == IF x \in Range(s) THEN s ELSE Append(s, x)

\* Set.prototype.delete
SetDelete(s, x) == SelectSeq(s, LAMBDA y : y # x)

\* ------------------------------------------------------------------------
\* The state of the program
\* ------------------------------------------------------------------------
VARIABLES
    atomStateMap,   \* atom -> <<>> or <<[d, v]>>
    mountedMap,     \* atom -> <<>> or <<[l, t]>>
    pendingMap,     \* sequence of <<atom, <<>> or <<prevAtomState>>>>
    returned,       \* the <<atom, listener>> an unsubscribe callback exists for
    called,         \* those whose latest callback has been called
    evicted,        \* the atoms unsubscribed and not subscribed again since
    lastOp,         \* the last public call: [op, atom, l, arg]
    trace,          \* what the last public call did, in order
    thrown,         \* the last public call ended with an exception
    result,         \* the value the last get returned
    hist,           \* the calls made so far, while at most two
    nops            \* the number of calls made so far

vars == <<atomStateMap, mountedMap, pendingMap, returned, called, evicted, lastOp,
          trace, thrown, result, hist, nops>>

\* the store as the helpers thread it
Store(asm, mm, pm) ==
    [asm |-> asm, mm |-> mm, pm |-> pm, tr |-> <<>>, err |-> FALSE]

\* an entry of the trace: a read function run ("read", by a cache "miss" or
\* by "force"), a self-read of the getter ("self": "cached", "init" or "none"),
\* a write function entered and returned ("write", "wrote"), a listener
\* invoked ("fire", with the listener)
Ev(e, a, l) == [e |-> e, a |-> a, l |-> l]

Did(st, ev) == [st EXCEPT !.tr = Append(@, ev)]

\* throw new Error("no atom init")
Throw(st) == [st EXCEPT !.err = TRUE]

getAtomState(st, atom) == st.asm[atom]

\* a faulty setAtomState: the test pendingMap.has(atom) is dropped, every
\* installed state adds a pending entry
setAtomState_alwaysPends(st, atom, atomState) ==
    LET prevAtomState == st.asm[atom]
    IN [st EXCEPT !.asm[atom] = <<atomState>>,
                  !.pm = Append(st.pm, <<atom, prevAtomState>>)]

setAtomState(st, atom, atomState) ==
    LET prevAtomState == st.asm[atom]
    IN [st EXCEPT !.asm[atom] = <<atomState>>,
                  !.pm = IF atom \in Keys(st.pm) THEN st.pm
                         ELSE Append(st.pm, <<atom, prevAtomState>>)]

\* a faulty setAtomValue: the equality test is dropped, an existing state is
\* never replaced
setAtomValue_keepsPrev(st, atom, value, nextDependencies) ==
    LET prevAtomState == getAtomState(st, atom)
        nextAtomState == [d |-> nextDependencies, v |-> value]
    IN IF prevAtomState # <<>>
       THEN [st |-> st, as |-> prevAtomState[1]]
       ELSE [st |-> setAtomState(st, atom, nextAtomState), as |-> nextAtomState]

\* returns [st, as]: the store and the AtomState returned
setAtomValue(st, atom, value, nextDependencies) ==
    LET prevAtomState == getAtomState(st, atom)
        nextAtomState == [d |-> nextDependencies, v |-> value]
    IN IF prevAtomState # <<>> /\ isEqualAtomValue(prevAtomState[1], nextAtomState)
       THEN [st |-> st, as |-> prevAtomState[1]]
       ELSE [st |-> setAtomState(st, atom, nextAtomState), as |-> nextAtomState]

NoState == [d |-> <<>>, v |-> 0]

\* atom.read: the atom read next by a read function that has read the values
\* vs so far (<<>> when it reads no more), and the value it returns then
NextRead(atom, vs) ==
    LET reads == CASE atom \in PrimitiveAtoms \cup {"noinit"} -> <<atom>>
                   [] atom \in {"double", "bounce"} -> <<"count">>
                   [] atom = "sum" -> <<"count", "double">>
                   [] atom = "risky" -> <<"count", "noinit">>
                   [] atom = "both" -> <<"count", "flag">>
                   [] atom = "sel" -> IF vs # <<>> /\ vs[1] > 0
                                      THEN <<"flag">> ELSE <<"flag", "count">>
    IN IF Len(vs) < Len(reads) THEN <<reads[Len(vs) + 1]>> ELSE <<>>

ReadValue(atom, vs) ==
    CASE atom \in PrimitiveAtoms \cup {"noinit", "bounce"} -> vs[1]
      [] atom = "double" -> vs[1] * 2
      [] atom \in {"sum", "risky", "both"} -> vs[1] + vs[2]
      [] atom = "sel" -> IF vs[1] > 0 THEN 5 ELSE vs[2]

RECURSIVE readAtomState(_, _, _)
RECURSIVE getter(_, _, _, _)
RECURSIVE Read(_, _, _, _)

\* the getter readAtomState builds for atom, applied to a; nd is
\* nextDependencies.  Returns [st, nd, v].
getter(st, atom, a, nd) ==
    IF a = atom
    THEN LET aState == getAtomState(st, a)
         IN IF aState # <<>>
            THEN [st |-> Did(st, Ev("self", a, "cached")),
                  nd |-> MapSet(nd, a, aState[1].v),
                  v |-> returnAtomValue(aState[1])]
            ELSE IF hasInitialValue(a)
            THEN [st |-> Did(st, Ev("self", a, "init")),
                  nd |-> MapSet(nd, a, Undefined), v |-> InitOf(a)]
            ELSE [st |-> Throw(Did(st, Ev("self", a, "none"))), nd |-> nd, v |-> 0]
    ELSE LET r == readAtomState(st, a, FALSE)
         IN IF r.st.err THEN [st |-> r.st, nd |-> nd, v |-> 0]
            ELSE [st |-> r.st, nd |-> MapSet(nd, a, r.as.v),
                  v |-> returnAtomValue(r.as)]

\* atom.read(getter), after the reads that returned vs.  Returns [st, nd, v].
Read(st, atom, nd, vs) ==
    LET next == NextRead(atom, vs)
    IN IF st.err THEN [st |-> st, nd |-> nd, v |-> 0]
       ELSE IF next = <<>> THEN [st |-> st, nd |-> nd, v |-> ReadValue(atom, vs)]
       ELSE LET g == getter(st, atom, next[1], nd)
            IN Read(g.st, atom, g.nd, Append(vs, g.v))

\* a faulty readAtomState: the cache test is dropped, every read re-runs the
\* read function
readAtomState_alwaysReads(st, atom, force) ==
    LET how == IF force THEN "force" ELSE "miss"
        r == Read(Did(st, Ev("read", atom, how)), atom, <<>>, <<>>)
    IN IF r.st.err THEN [st |-> r.st, as |-> NoState]
       ELSE setAtomValue(r.st, atom, r.v, r.nd)

\* returns [st, as]
readAtomState(st, atom, force) ==
    LET atomState == getAtomState(st, atom)
    IN IF ~force /\ atomState # <<>>
       THEN [st |-> st, as |-> atomState[1]]
       ELSE LET how == IF force THEN "force" ELSE "miss"
                r == Read(Did(st, Ev("read", atom, how)), atom, <<>>, <<>>)
            IN IF r.st.err THEN [st |-> r.st, as |-> NoState]
               ELSE setAtomValue(r.st, atom, r.v, r.nd)

readAtom(st, atom) == readAtomState(st, atom, FALSE)

\* ------------------------------------------------------------------------
\* The write path
\* ------------------------------------------------------------------------
\* an argument of set: a literal, or the updater prev => prev + 1
Lit(n) == [fn |-> FALSE, v |-> n]
Inc == [fn |-> TRUE, v |-> 1]

\* the updater function itself, when it is stored as a value
IncFn == -2

\* args[0] as V: the argument is installed as it is
ArgAsValue(arg) == IF arg.fn THEN IncFn ELSE arg.v

RECURSIVE writeAtomState(_, _, _)
RECURSIVE setter(_, _, _, _)
RECURSIVE Write(_, _, _, _, _)
RECURSIVE recomputeDependents(_, _)
RECURSIVE forEachDependent(_, _, _, _)
RECURSIVE forEachListener(_, _, _, _)
RECURSIVE forEachPending(_, _, _)
RECURSIVE flushPending(_)

\* dependents.forEach of recomputeDependents(atom), from the i-th on
forEachDependent(st, atom, dependents, i) ==
    IF i > Len(dependents) \/ st.err THEN st
    ELSE LET dependent == dependents[i]
             s1 == IF dependent # atom
                   THEN readAtomState(st, dependent, TRUE).st
                   ELSE st
             s2 == recomputeDependents(s1, dependent)
         IN forEachDependent(s2, atom, dependents, i + 1)

recomputeDependents(st, atom) ==
    LET dependents == IF st.mm[atom] = <<>> THEN <<>> ELSE st.mm[atom][1].t
    IN forEachDependent(st, atom, dependents, 1)

\* the getter writeAtomState builds.  Returns [st, v].
writeGetter(st, a) ==
    LET r == readAtomState(st, a, FALSE)
    IN [st |-> r.st, v |-> IF r.st.err THEN 0 ELSE returnAtomValue(r.as)]

\* a faulty setter: a nested write flushes the pending set when it returns
setter_flushes(st, atom, a, arg) ==
    IF a = atom
    THEN LET prevAtomState == getAtomState(st, a)
             r == setAtomValue(st, a, ArgAsValue(arg), <<>>)
         IN IF prevAtomState = <<>> \/ ~isEqualAtomValue(prevAtomState[1], r.as)
            THEN recomputeDependents(r.st, a)
            ELSE r.st
    ELSE LET s == writeAtomState(st, a, arg)
         IN IF s.err THEN s ELSE flushPending(s)

\* the setter writeAtomState builds for atom, applied to a
setter(st, atom, a, arg) ==
    IF a = atom
    THEN LET prevAtomState == getAtomState(st, a)
             r == setAtomValue(st, a, ArgAsValue(arg), <<>>)
         IN IF prevAtomState = <<>> \/ ~isEqualAtomValue(prevAtomState[1], r.as)
            THEN recomputeDependents(r.st, a)
            ELSE r.st
    ELSE writeAtomState(st, a, arg)

\* atom.write: the i-th call a write function makes, given its argument and
\* the values got its getter returned so far
WriteStep(atom, arg, i, got) ==
    LET End == [k |-> "end", a |-> atom, arg |-> arg]
        G(a) == [k |-> "get", a |-> a, arg |-> arg]
        S(a, x) == [k |-> "set", a |-> a, arg |-> x]
        calls ==
          CASE atom \in PrimitiveAtoms ->
                 IF arg.fn
                 THEN <<G(atom), S(atom, Lit(IF got = <<>> THEN 0 ELSE got[1] + arg.v))>>
                 ELSE <<S(atom, arg)>>
            [] atom = "noinit" -> <<S(atom, arg)>>
            [] atom = "risky" -> <<S("count", arg), G("noinit")>>
            [] atom = "both" -> <<S("count", arg), S("flag", arg)>>
            [] atom = "bounce" ->
                 <<G("count"), S("count", arg),
                   S("count", Lit(IF got = <<>> THEN 0 ELSE got[1]))>>
    IN IF i <= Len(calls) THEN calls[i] ELSE End

\* atom.write(getter, setter, arg), from its i-th call on
Write(st, atom, arg, i, got) ==
    LET step == WriteStep(atom, arg, i, got)
    IN IF st.err \/ step.k = "end" THEN st
       ELSE IF step.k = "get"
       THEN LET g == writeGetter(st, step.a)
            IN Write(g.st, atom, arg, i + 1, Append(got, g.v))
       ELSE Write(setter(st, atom, step.a, step.arg), atom, arg, i + 1, got)

writeAtomState(st, atom, arg) ==
    LET s == Write(Did(st, Ev("write", atom, "")), atom, arg, 1, <<>>)
    IN IF s.err THEN s ELSE Did(s, Ev("wrote", atom, ""))

\* mounted.l.forEach(listener => listener()), from the i-th listener on.
\* A listener is the rerender dispatch of useAtomValue: it changes nothing
\* in the store before writeAtom returns.
forEachListener(st, atom, l, i) ==
    IF i > Len(l) THEN st
    ELSE forEachListener(Did(st, Ev("fire", atom, l[i])), atom, l, i + 1)

\* pending.forEach of flushPending, from the i-th entry on
forEachPending(st, pending, i) ==
    IF i > Len(pending) THEN st
    ELSE LET atom == pending[i][1]
             prevAtomState == pending[i][2]
             atomState == getAtomState(st, atom)
             mounted == st.mm[atom]
             s1 == IF /\ mounted # <<>>
                      /\ atomState # <<>>
                      /\ ~(prevAtomState # <<>>
                            /\ isEqualAtomValue(prevAtomState[1], atomState[1]))
                   THEN forEachListener(st, atom, mounted[1].l, 1)
                   ELSE st
         IN forEachPending(s1, pending, i + 1)

flushPending(st) ==
    IF st.pm = <<>> THEN st
    ELSE flushPending(forEachPending([st EXCEPT !.pm = <<>>], st.pm, 1))

writeAtom(st, atom, arg) ==
    LET s == writeAtomState(st, atom, arg)
    IN IF s.err THEN s ELSE flushPending(s)

\* ------------------------------------------------------------------------
\* Mounting
\* ------------------------------------------------------------------------
RECURSIVE mountAtom(_, _, _)
RECURSIVE forEachDependency(_, _, _, _)

\* getAtomState(atom)?.d.forEach of mountAtom(atom), from the i-th key on
forEachDependency(st, atom, d, i) ==
    IF i > Len(d) THEN st
    ELSE LET a == d[i][1]
             aMounted == st.mm[a]
             s1 == IF aMounted # <<>>
                   THEN [st EXCEPT !.mm[a] = <<[aMounted[1] EXCEPT !.t = SetAdd(@, atom)]>>]
                   ELSE IF a # atom
                   THEN mountAtom(st, a, <<atom>>)
                   ELSE st
         IN forEachDependency(s1, atom, d, i + 1)

\* initialDependent is <<>> or <<atom>>
mountAtom(st, atom, initialDependent) ==
    LET atomState == getAtomState(st, atom)
        d == IF atomState = <<>> THEN <<>> ELSE atomState[1].d
        s1 == forEachDependency(st, atom, d, 1)
    IN [s1 EXCEPT !.mm[atom] = <<[t |-> initialDependent, l |-> <<>>]>>]

\* a faulty addAtom: the atom is mounted anew on every call
addAtom_remounts(st, atom) == mountAtom(st, atom, <<>>)

addAtom(st, atom) ==
    IF st.mm[atom] = <<>> THEN mountAtom(st, atom, <<>>) ELSE st

\* a subscribeAtom that reads the atom before it mounts it
subscribeAtom_readsFirst(st, atom, listener) ==
    LET s0 == readAtomState(st, atom, FALSE).st
        s1 == addAtom(s0, atom)
    IN IF s0.err THEN s0
       ELSE [s1 EXCEPT !.mm[atom] = <<[s1.mm[atom][1] EXCEPT !.l = SetAdd(@, listener)]>>]

\* the store after sub(atom, listener)
subscribeAtom(st, atom, listener) ==
    LET s1 == addAtom(st, atom)
    IN [s1 EXCEPT !.mm[atom] = <<[s1.mm[atom][1] EXCEPT !.l = SetAdd(@, listener)]>>]

\* atomState.d.forEach of unmountAtom(atom), from the i-th key on
RECURSIVE forEachUnmount(_, _, _, _)
forEachUnmount(st, atom, d, i) ==
    IF i > Len(d) THEN st
    ELSE LET a == d[i][1]
             aMounted == st.mm[a]
             s1 == IF a # atom /\ aMounted # <<>>
                   THEN [st EXCEPT !.mm[a] = <<[aMounted[1] EXCEPT !.t = SetDelete(@, atom)]>>]
                   ELSE st
         IN forEachUnmount(s1, atom, d, i + 1)

\* a faulty unmountAtom: mountedMap.delete(atom) is missing
unmountAtom_keepsRecord(st, atom) ==
    LET atomState == getAtomState(st, atom)
    IN IF atomState = <<>> THEN st
       ELSE forEachUnmount(st, atom, atomState[1].d, 1)

\* a faulty unmountAtom: the record is deleted only inside if (atomState)
unmountAtom_onlyCached(st, atom) ==
    LET s1 == [st EXCEPT !.mm[atom] = <<>>]
        atomState == getAtomState(st, atom)
    IN IF atomState = <<>> THEN st
       ELSE forEachUnmount(s1, atom, atomState[1].d, 1)

unmountAtom(st, atom) ==
    LET s1 == [st EXCEPT !.mm[atom] = <<>>]
        atomState == getAtomState(s1, atom)
    IN IF atomState = <<>> THEN s1
       ELSE forEachUnmount(s1, atom, atomState[1].d, 1)

\* ------------------------------------------------------------------------
\* The public operations
\* ------------------------------------------------------------------------
Op(op, atom, l, arg) == [op |-> op, atom |-> atom, l |-> l, arg |-> arg]

NoOp == Op("new", "", "", Lit(0))

\* the calls made so far are remembered while there are at most two
More == <<Op("more", "", "", Lit(0))>>
Remember(h, o) == IF h # More /\ Len(h) < 2 THEN Append(h, o) ELSE More

\* createStore()
Init ==
    /\ atomStateMap = [a \in Atoms |-> <<>>]
    /\ mountedMap = [a \in Atoms |-> <<>>]
    /\ pendingMap = <<>>
    /\ returned = {}
    /\ called = {}
    /\ evicted = {}
    /\ lastOp = NoOp
    /\ trace = <<>>
    /\ thrown = FALSE
    /\ result = 0
    /\ hist = <<>>
    /\ nops = 0

Current == Store(atomStateMap, mountedMap, pendingMap)

\* what every public call leaves behind: the store, the trace of the call,
\* whether it threw, and the call itself
Called(st, o) ==
    /\ atomStateMap' = st.asm
    /\ mountedMap' = st.mm
    /\ pendingMap' = st.pm
    /\ trace' = st.tr
    /\ thrown' = st.err
    /\ lastOp' = o
    /\ hist' = Remember(hist, o)
    /\ nops' = nops + 1

\* store.get(atom)
Get(atom) ==
    /\ nops < MaxOps
    /\ LET r == readAtomState(Current, atom, FALSE)
       IN /\ Called(r.st, Op("get", atom, "", Lit(0)))
          /\ result' = IF r.st.err THEN 0 ELSE returnAtomValue(r.as)
    /\ UNCHANGED <<returned, called, evicted>>

\* store.set(atom, arg)
Set(atom, arg) ==
    /\ nops < MaxOps
    /\ Called(writeAtom(Current, atom, arg), Op("set", atom, "", arg))
    /\ result' = 0
    /\ UNCHANGED <<returned, called, evicted>>

\* store.sub(atom, listener).  The callback returned, () => unmountAtom(atom),
\* is remembered by the pair it was returned for.
Sub(atom, listener) ==
    /\ nops < MaxOps
    /\ Called(subscribeAtom(Current, atom, listener),
              Op("sub", atom, listener, Lit(0)))
    /\ returned' = returned \cup {<<atom, listener>>}
    /\ called' = called \ {<<atom, listener>>}
    /\ evicted' = evicted \ {atom}
    /\ result' = 0

\* a call of the callback returned by sub(atom, listener)
Unsub(atom, listener) ==
    /\ nops < MaxOps
    /\ <<atom, listener>> \in returned
    /\ Called(unmountAtom(Current, atom), Op("unsub", atom, listener, Lit(0)))
    /\ called' = called \cup {<<atom, listener>>}
    /\ evicted' = evicted \cup {atom}
    /\ result' = 0
    /\ UNCHANGED returned

\* the arguments offered to set(atom, _): the literals, and for a primitive
\* atom the updater
Lits == {0, 1, 5}
ArgsOf(atom) ==
    {Lit(n) : n \in Lits} \cup (IF atom \in PrimitiveAtoms THEN {Inc} ELSE {})

\* the calls a run draws from: gets of G, sets of W, subscriptions of S by
\* the listeners LS
NextOver(G, W, S, LS) ==
    \/ \E atom \in G : Get(atom)
    \/ \E atom \in W : \E arg \in ArgsOf(atom) : Set(atom, arg)
    \/ \E atom \in S : \E listener \in LS : Sub(atom, listener)
    \/ \E atom \in S : \E listener \in LS : Unsub(atom, listener)

\* count, double and sum: a diamond
Next == NextOver({"count", "double", "sum"}, {"count"},
                 {"count", "double", "sum"}, Listeners)

Spec == Init /\ [][Next]_vars

\* count, flag and sel: a dependency set that changes
NextDyn == NextOver({"count", "flag", "sel"}, {"count", "flag"},
                    {"count", "sel"}, {"L1"})

SpecDyn == Init /\ [][NextDyn]_vars

\* noinit, risky and count: a self-read without an initial value
NextErr == NextOver({"noinit", "risky", "count"}, {"noinit", "risky", "count"},
                    {"noinit", "risky"}, {"L1"})

SpecErr == Init /\ [][NextErr]_vars

\* count, double, sum and both: a diamond, and a write function that writes
\* two dependencies of its atom
NextTxn == NextOver({"sum", "both"}, {"count", "both"}, {"sum", "both"}, {"L1"})

SpecTxn == Init /\ [][NextTxn]_vars

\* noinit and count: a custom write function that hands its argument to the
\* setter of its own atom, called with a value or with the updater
NextUpd ==
    \/ NextOver({"noinit", "count"}, {"noinit", "count"}, {"noinit", "count"}, {"L1"})
    \/ Set("noinit", Inc)

SpecUpd == Init /\ [][NextUpd]_vars

\* ------------------------------------------------------------------------
\* Vocabulary of the properties
\* ------------------------------------------------------------------------
Cached(a) == atomStateMap[a] # <<>>

Mounted(a) == mountedMap[a] # <<>>

CachedValue(a) == atomStateMap[a][1].v

\* the value of a primitive atom under the state table asm: the value
\* stored, or its initial value
ValueIn(asm, p) == IF asm[p] # <<>> THEN asm[p][1].v ELSE InitOf(p)

PrimValue(p) == ValueIn(atomStateMap, p)

\* the value the read function of a yields on up-to-date values, the
\* written atoms having the values of the state table asm
RECURSIVE TrueValueIn(_, _)
RECURSIVE TrueReads(_, _, _)
TrueReads(asm, a, vs) ==
    LET next == NextRead(a, vs)
    IN IF next = <<>> THEN ReadValue(a, vs)
       ELSE TrueReads(asm, a, Append(vs, TrueValueIn(asm, next[1])))

TrueValueIn(asm, a) ==
    IF a \in PrimitiveAtoms THEN ValueIn(asm, a)
    ELSE IF a = "noinit" THEN (IF asm[a] # <<>> THEN asm[a][1].v ELSE Undefined)
    ELSE TrueReads(asm, a, <<>>)

\* the atoms the read function of a can read, and whether b reads p through
\* any number of atoms
MayRead(a) ==
    CASE a \in {"double", "bounce"} -> {"count"}
      [] a = "sum" -> {"count", "double"}
      [] a = "risky" -> {"count", "noinit"}
      [] a = "both" -> {"count", "flag"}
      [] a = "sel" -> {"flag", "count"}
      [] OTHER -> {}

RECURSIVE DependsOn(_, _)
DependsOn(b, p) == p \in MayRead(b) \/ \E m \in MayRead(b) : DependsOn(m, p)

\* the listener invocations of a call: how often l was invoked for a, and
\* whether any listener was invoked for a
Fires(tr, a, l) == Cardinality({i \in DOMAIN tr : tr[i] = Ev("fire", a, l)})

FiredFor(tr, a) == \E i \in DOMAIN tr : tr[i].e = "fire" /\ tr[i].a = a

\* the value get(a) returns in the current state (Undefined when it throws)
Peek(a) ==
    LET r == readAtomState(Current, a, FALSE)
    IN IF r.st.err THEN Undefined ELSE returnAtomValue(r.as)

\* the atoms with a registered listener, and the atoms reachable from a set
\* of atoms through the dependencies recorded in the cached states
HasListener(a) == Mounted(a) /\ mountedMap[a][1].l # <<>>

RecordedDeps(a) == IF Cached(a) THEN Keys(atomStateMap[a][1].d) ELSE {}

RECURSIVE ReachFrom(_)
ReachFrom(S) ==
    LET N == S \cup UNION {RecordedDeps(a) : a \in S}
    IN IF N = S THEN S ELSE ReachFrom(N)

\* ------------------------------------------------------------------------
\* C1  Propagation completeness: when a set on a primitive atom that changes
\* its value returns, every mounted atom that depends on it, directly or
\* through other atoms, and has a cached value has the value of its read
\* function on the values after the write.
\* ------------------------------------------------------------------------
C1_PropagationCompleteness ==
    [][(/\ lastOp'.op = "set"
        /\ lastOp'.atom \in PrimitiveAtoms
        /\ ~thrown'
        /\ ValueIn(atomStateMap, lastOp'.atom) # ValueIn(atomStateMap', lastOp'.atom))
       => \A b \in Atoms :
            (Mounted(b)' /\ Cached(b)' /\ DependsOn(b, lastOp'.atom))
            => CachedValue(b)' = TrueValueIn(atomStateMap', b)]_vars

\* ------------------------------------------------------------------------
\* C2  On a fresh store, sub(double, L1); set(count, 5) invokes L1 exactly
\* once, and a get(double) that follows returns 10.
\* ------------------------------------------------------------------------
SubThenSet == <<Op("sub", "double", "L1", Lit(0)), Op("set", "count", "", Lit(5))>>

C2_SubscribeThenSet ==
    [][/\ hist' = SubThenSet => Fires(trace', "double", "L1") = 1
       /\ (hist = SubThenSet /\ lastOp' = Op("get", "double", "", Lit(0)))
          => result' = 10]_vars

\* ------------------------------------------------------------------------
\* C3  Reference-stability of notification: a set call invokes no listener of
\* a mounted atom whose cached value after the call equals its cached value
\* before the call.
\* ------------------------------------------------------------------------
C3_NoNotificationWithoutChange ==
    [][lastOp'.op = "set"
       => \A c \in Atoms :
            (/\ Mounted(c)
             /\ Cached(c)
             /\ Cached(c)'
             /\ CachedValue(c) = CachedValue(c)')
            => ~FiredFor(trace', c)]_vars

\* ------------------------------------------------------------------------
\* C4  Mount consistency: after every call, an atom has a mount record if and
\* only if it is reachable, through the dependencies recorded in the cached
\* states, from an atom with a registered listener.
\* ------------------------------------------------------------------------
C4_MountConsistency ==
    \A b \in Atoms : Mounted(b) <=> b \in ReachFrom({a \in Atoms : HasListener(a)})

\* ------------------------------------------------------------------------
\* C5  A call of an unsubscribe callback removes the whole mount record of
\* its atom: until the atom is subscribed again it has no listener and no set
\* invokes a listener for it, also not the listeners whose own callback was
\* never called; and right after the call the atom is in the dependents set
\* of none of its recorded dependencies.
\* ------------------------------------------------------------------------
Dependents(a) == IF Mounted(a) THEN Range(mountedMap[a][1].t) ELSE {}

C5_UnsubscribeEvictsRecord ==
    /\ \A c \in evicted : ~HasListener(c) /\ ~FiredFor(trace, c)
    /\ lastOp.op = "unsub"
       => /\ ~Mounted(lastOp.atom)
          /\ \A a \in RecordedDeps(lastOp.atom) \ {lastOp.atom} :
               lastOp.atom \notin Dependents(a)

\* a set changed count after one of its two subscribers unsubscribed
C5_Witness ==
    /\ lastOp = Op("set", "count", "", Lit(5))
    /\ "count" \in evicted
    /\ <<"count", "L2">> \in returned \ called
    /\ Cached("count") /\ CachedValue("count") = 5
    /\ Cached("double") /\ RecordedDeps("double") = {"count"}

\* ------------------------------------------------------------------------
\* C6  After sub(c, l) and a call of the callback returned, with no other
\* listener subscribed on c, no set invokes l for c; and the state of c is
\* kept: a get(c) right after set(c, v) returns v.
\* ------------------------------------------------------------------------
Unsubscribed(c, l) ==
    /\ <<c, l>> \in called
    /\ \A k \in Listeners \ {l} : <<c, k>> \notin returned

C6_UnsubscribedListenerSilent ==
    [][\A c \in Atoms : \A l \in Listeners :
         Unsubscribed(c, l)'
         => /\ Fires(trace', c, l) = 0
            /\ (/\ lastOp.op = "set" /\ lastOp.atom = c
                /\ ~lastOp.arg.fn /\ ~thrown
                /\ lastOp'.op = "get" /\ lastOp'.atom = c)
               => (~thrown' /\ result' = lastOp.arg.v)]_vars

\* count was subscribed and unsubscribed, then set to 5, and get returns 5
C6_Witness ==
    /\ lastOp = Op("get", "count", "", Lit(0))
    /\ result = 5
    /\ Unsubscribed("count", "L1")
    /\ ~Mounted("count")
    /\ hist = More

\* ------------------------------------------------------------------------
\* C7  Read-after-write of a primitive atom: after set(p, v) with a literal v
\* get(p) returns v, and after set(p, f) with the updater f it returns f(u),
\* u being what get(p) returned before the set.
\* ------------------------------------------------------------------------
C7_ReadAfterWrite ==
    [][\A p \in PrimitiveAtoms :
         (lastOp'.op = "set" /\ lastOp'.atom = p)
         => Peek(p)' = IF lastOp'.arg.fn THEN Peek(p) + lastOp'.arg.v
                       ELSE lastOp'.arg.v]_vars

\* the updater applied to a mounted count that a literal set to 5 before
C7_Witness ==
    /\ lastOp = Op("set", "count", "", Inc)
    /\ Mounted("count")
    /\ Cached("count") /\ CachedValue("count") = 6

\* ------------------------------------------------------------------------
\* C8  get of an atom with a cached state returns the cached value, runs no
\* read function and changes neither the state table, the mount table nor
\* the pending set, also when a dependency was written since.
\* ------------------------------------------------------------------------
C8_CachedGetIsPure ==
    [][\A a \in Atoms :
         (lastOp'.op = "get" /\ lastOp'.atom = a /\ Cached(a))
         => /\ result' = CachedValue(a)
            /\ trace' = <<>>
            /\ ~thrown'
            /\ UNCHANGED <<atomStateMap, mountedMap, pendingMap>>]_vars

\* get(double) returned the stale 0 although count is 5
C8_Witness ==
    /\ lastOp = Op("get", "double", "", Lit(0))
    /\ trace = <<>>
    /\ result = 0
    /\ Cached("count") /\ CachedValue("count") = 5

\* ------------------------------------------------------------------------
\* C9  Laziness: a read function runs only while a get finds no cached state
\* for its atom, or while a set force-recomputes the atom as a mounted
\* dependent; sub and unsubscribe run no read function and leave the state
\* table alone.
\* ------------------------------------------------------------------------
IsRead(ev) == ev.e = "read"

C10_NoInitialValue ==
    [][LET Bare(i) == /\ trace'[i].e = "self"
                      /\ trace'[i].a \notin PrimitiveAtoms
                      /\ ~Cached(trace'[i].a)
       IN /\ \A i \in DOMAIN trace' :
               Bare(i) => (thrown' /\ atomStateMap'[trace'[i].a] = <<>>)
          /\ thrown' => \E i \in DOMAIN trace' : Bare(i)]_vars

\* set(risky, 5) wrote count and then threw on the read of noinit
C10_Witness ==
    /\ lastOp = Op("set", "risky", "", Lit(5))
    /\ thrown
    /\ ~Cached("noinit")
    /\ \E i \in DOMAIN trace : trace[i] = Ev("self", "noinit", "none")

\* ------------------------------------------------------------------------
\* C11  A set call that ends with an exception leaves no partial state: the
\* cached state of every atom is what it was before the call, and the call
\* invokes no listener.
\* ------------------------------------------------------------------------
C11_NoPartialSuccess ==
    [][(lastOp'.op = "set" /\ thrown')
       => /\ \A a \in Atoms : atomStateMap'[a] = atomStateMap[a]
          /\ \A i \in DOMAIN trace' : trace'[i].e # "fire"]_vars

\* ------------------------------------------------------------------------
\* C12  Notification is deferred to the end of the transaction: in a set
\* call every listener invocation comes after the write function of the
\* target has returned, hence after every nested write and every
\* recomputation; a nested write does not flush.
\* ------------------------------------------------------------------------
C12_NotificationDeferred ==
    [][lastOp'.op = "set"
       => \A i, j \in DOMAIN trace' :
            (trace'[i].e = "fire" /\ trace'[j].e # "fire") => j < i]_vars

\* set(risky, 5) wrote count in a nested write, which recomputed the mounted
\* risky, and L1 was invoked for risky after the write of risky returned
C12_Witness ==
    /\ lastOp = Op("set", "risky", "", Lit(5))
    /\ ~thrown
    /\ \E i, j, k \in DOMAIN trace :
         /\ i < j /\ j < k
         /\ trace[i] = Ev("wrote", "count", "")
         /\ trace[j] = Ev("wrote", "risky", "")
         /\ trace[k] = Ev("fire", "risky", "L1")
    /\ \E i \in DOMAIN trace : trace[i] = Ev("read", "risky", "force")

\* ------------------------------------------------------------------------
\* C13  In a set call each listener registered on an atom is invoked at most
\* once for that atom, also when the atom was force-recomputed several times
\* (a diamond) or several of its dependencies were written in the call.
\* ------------------------------------------------------------------------
Forced(tr, a) == Cardinality({i \in DOMAIN tr : tr[i] = Ev("read", a, "force")})

C13_AtMostOncePerSet ==
    [][lastOp'.op = "set"
       => \A a \in Atoms : \A l \in Listeners : Fires(trace', a, l) <= 1]_vars

\* set(both, 1) wrote count and flag, both was force-recomputed twice and L1
\* was invoked once for it
C13_Witness ==
    /\ lastOp = Op("set", "both", "", Lit(1))
    /\ Forced(trace, "both") = 2
    /\ Fires(trace, "both", "L1") = 1
    /\ CachedValue("both") = 2

\* set(count, 5) force-recomputed sum twice, through count and through
\* double, and L1 was invoked once for it
C13_Diamond ==
    /\ lastOp = Op("set", "count", "", Lit(5))
    /\ Forced(trace, "sum") = 2
    /\ Fires(trace, "sum", "L1") = 1

\* ------------------------------------------------------------------------
\* C14  Exact dependency tracking: after a call that evaluated the read
\* function of a derived atom, the dependencies recorded in the atom's cached
\* state are exactly the atoms the read function read in that evaluation,
\* also when the value it returned equals the previous one.
\* ------------------------------------------------------------------------
\* the atoms the read function of a reads on the values of the state table
RECURSIVE ReadSet(_, _, _)
ReadSet(asm, a, vs) ==
    LET next == NextRead(a, vs)
    IN IF next = <<>> THEN {}
       ELSE {next[1]} \cup ReadSet(asm, a, Append(vs, TrueValueIn(asm, next[1])))

C14_ExactDependencies ==
    [][\A a \in Atoms \ PrimitiveAtoms :
         (/\ ~thrown'
          /\ \E i \in DOMAIN trace' : IsRead(trace'[i]) /\ trace'[i].a = a)
         => RecordedDeps(a)' = ReadSet(atomStateMap', a, <<>>)]_vars

\* ------------------------------------------------------------------------
\* C15  Dependents-set consistency: for every mounted atom a, an atom b other
\* than a is in the dependents set of a if and only if b has a mount record
\* and a is among the dependencies recorded in the cached state of b.
\* ------------------------------------------------------------------------
C15_DependentsConsistency ==
    \A a \in Atoms : \A b \in Atoms \ {a} :
      Mounted(a) => (b \in Dependents(a) <=> (Mounted(b) /\ a \in RecordedDeps(b)))

\* ------------------------------------------------------------------------
\* C16  Mounting is idempotent: sub(c, l) on an atom that has a mount record
\* keeps the record's listeners and dependents, adds only l to the
\* listeners, once, and changes the mount record of no other atom.
\* ------------------------------------------------------------------------
C16_MountIdempotent ==
    [][\A c \in Atoms :
         (lastOp'.op = "sub" /\ lastOp'.atom = c /\ Mounted(c))
         => /\ Mounted(c)'
            /\ mountedMap'[c][1].t = mountedMap[c][1].t
            /\ mountedMap'[c][1].l = SetAdd(mountedMap[c][1].l, lastOp'.l)
            /\ Cardinality({i \in DOMAIN mountedMap'[c][1].l :
                              mountedMap'[c][1].l[i] = lastOp'.l}) = 1
            /\ \A b \in Atoms \ {c} : mountedMap'[b] = mountedMap[b]]_vars

\* L1 was subscribed on count a second time while count had the listeners
\* L1 and L2 and the dependent double
C16_Witness ==
    /\ lastOp = Op("sub", "count", "L1", Lit(0))
    /\ Mounted("count")
    /\ mountedMap["count"][1].l = <<"L1", "L2">>
    /\ "double" \in Dependents("count")
    /\ hist = More

\* ------------------------------------------------------------------------
\* C17  When the write function of an atom calls the setter on the atom
\* itself, the value installed is the argument, or for an updater the
\* updater applied to the current value of the atom; for the default write
\* of the factory and for a custom write function alike.
\* ------------------------------------------------------------------------
\* the atoms whose write function hands set's argument to their own setter
SelfWriting == PrimitiveAtoms \cup {"noinit"}

C17_UpdaterApplied ==
    [][\A c \in SelfWriting :
         (/\ lastOp'.op = "set" /\ lastOp'.atom = c /\ ~thrown'
          /\ lastOp'.arg.fn => (c \in PrimitiveAtoms \/ Cached(c)))
         => /\ Cached(c)'
            /\ CachedValue(c)' =
                 IF lastOp'.arg.fn
                 THEN (IF Cached(c) THEN CachedValue(c) ELSE InitOf(c)) + lastOp'.arg.v
                 ELSE lastOp'.arg.v]_vars

\* ------------------------------------------------------------------------
\* C18  The pending set is transient: between the public calls, after every
\* get and after every set that returns, it is empty.
\* ------------------------------------------------------------------------
C18_PendingTransient ==
    (lastOp.op = "set" => ~thrown) => pendingMap = <<>>

\* ------------------------------------------------------------------------
\* C19  Unsubscribing from one atom does not silence another: when l is
\* registered on y and the callback of a subscription on another atom x is
\* called, a set on a primitive atom that changes the value of y and would
\* have invoked l for y before the call still invokes l for y after it, also
\* when x is a dependency of y.
\* ------------------------------------------------------------------------
Registered(mm, y, l) == mm[y] # <<>> /\ l \in Range(mm[y][1].l)

\* set(p, v) in the store (asm, mm, pm) changes the value of y and invokes l
\* for y
SetNotifies(asm, mm, pm, p, v, y, l) ==
    /\ TrueValueIn(asm, y) # TrueValueIn([asm EXCEPT ![p] = <<[d |-> <<>>, v |-> v]>>], y)
    /\ Fires(writeAtom(Store(asm, mm, pm), p, Lit(v)).tr, y, l) >= 1

C19_UnsubscribeDoesNotSilence ==
    [][lastOp'.op = "unsub"
       => \A y \in Atoms \ {lastOp'.atom} : \A l \in Listeners :
            \A p \in PrimitiveAtoms : \A v \in Lits :
              (/\ Registered(mountedMap, y, l)
               /\ SetNotifies(atomStateMap, mountedMap, pendingMap, p, v, y, l))
              => SetNotifies(atomStateMap', mountedMap', pendingMap', p, v, y, l)]_vars

\* ------------------------------------------------------------------------
\* C20  An unsubscribe callback is idempotent: a call of a callback that was
\* called before changes nothing in the store, also when the atom was
\* subscribed again in between: the new listener and the new mount record
\* stay.
\* ------------------------------------------------------------------------
C20_UnsubscribeIdempotent ==
    [][(lastOp'.op = "unsub" /\ <<lastOp'.atom, lastOp'.l>> \in called)
       => UNCHANGED <<atomStateMap, mountedMap, pendingMap>>]_vars

====
